---------------------------- MODULE Spec2Model ----------------------------
(***************************************************************************)
(* A model of udsoncan's declarative payload codec                         *)
(* (src/udsoncan/base_service.py): UdsField descriptors, the per-          *)
(* subfunction format derivation of ServiceData, pack / unpack with        *)
(* variable-length fields, and record equality.                            *)
(*                                                                         *)
(* Python values are modelled with their kind (int, float, bytes); floats  *)
(* are IEEE-754 binary64 numbers with a 53 bit significand, computed with  *)
(* round-to-nearest-even, so that scaling by a resolution rounds as the    *)
(* interpreter rounds.  struct's formats are sequences of characters.      *)
(*                                                                         *)
(* Operators take the values they use several times as parameters, which   *)
(* mirrors the local variables of the code.                                *)
(***************************************************************************)
EXTENDS Integers, Sequences, FiniteSets, TLC

(***************************************************************************)
(* Naturals of arbitrary size: sequences of limbs (digits in base 256),    *)
(* least significant first, without high zero limbs (zero is <<>>).        *)
(***************************************************************************)
Base == 2^8
LimbBits == 2^3

NTrim(n) ==
    IF \A i \in 1..Len(n) : n[i] = 0 THEN <<>>
    ELSE SubSeq(n, 1, CHOOSE i \in 1..Len(n) :
                          n[i] # 0 /\ \A j \in (i + 1)..Len(n) : n[j] = 0)

RECURSIVE NFromNat(_)
NFromNat(x) == IF x = 0 THEN <<>> ELSE <<x % Base>> \o NFromNat(x \div Base)

NLimb(n, i) == IF i >= 1 /\ i <= Len(n) THEN n[i] ELSE 0

\* a + b + c from limb i on
RECURSIVE NAddC(_, _, _, _)
NAddC(a, b, i, c) ==
    IF i > Len(a) /\ i > Len(b)
    THEN IF c = 0 THEN <<>> ELSE <<c>>
    ELSE <<(NLimb(a, i) + NLimb(b, i) + c) % Base>>
         \o NAddC(a, b, i + 1, (NLimb(a, i) + NLimb(b, i) + c) \div Base)

NAdd(a, b) == NAddC(a, b, 1, 0)

\* a - b - c from limb i on, for a >= b
RECURSIVE NSubC(_, _, _, _)
NSubC(a, b, i, c) ==
    IF i > Len(a) THEN <<>>
    ELSE <<(NLimb(a, i) - NLimb(b, i) - c) % Base>>
         \o NSubC(a, b, i + 1, IF NLimb(a, i) - NLimb(b, i) - c < 0 THEN 1 ELSE 0)

NSub(a, b) == NTrim(NSubC(a, b, 1, 0))

\* a >= b, both trimmed: no limb where a is below b with all higher limbs equal
NGeq(a, b) ==
    IF Len(a) # Len(b) THEN Len(a) > Len(b)
    ELSE ~ \E j \in 1..Len(a) :
             /\ a[j] < b[j]
             /\ \A h \in (j + 1)..Len(a) : a[h] = b[h]

\* a * d + c from limb i on, for a limb d and a carry c
RECURSIVE NMulLimb(_, _, _, _)
NMulLimb(a, d, i, c) ==
    IF i > Len(a)
    THEN IF c = 0 THEN <<>> ELSE <<c>>
    ELSE <<(a[i] * d + c) % Base>> \o NMulLimb(a, d, i + 1, (a[i] * d + c) \div Base)

NTimesLimb(a, d) == NTrim(NMulLimb(a, d, 1, 0))

\* part + 256 * rest
NMulAcc(part, rest) == IF rest = <<>> THEN part ELSE NAdd(part, <<0>> \o rest)

\* (the product of the higher limbs is computed first, then this limb's part)
RECURSIVE NMul(_, _)
NMul(a, b) ==
    IF a = <<>> \/ b = <<>> THEN <<>>
    ELSE NMulAcc(NTimesLimb(b, a[1]), NMul(Tail(a), b))

\* number of bits of a limb
LimbLen(d) == CHOOSE k \in 0..LimbBits : d < 2^k /\ (k = 0 \/ d >= 2^(k - 1))

NBitLen(n) == IF n = <<>> THEN 0 ELSE LimbBits * (Len(n) - 1) + LimbLen(n[Len(n)])

\* bit j of n, the lowest bit being bit 1
NBit(n, j) == (NLimb(n, (j - 1) \div LimbBits + 1) \div 2^((j - 1) % LimbBits)) % 2

\* n * 2^k
NShl(n, k) ==
    IF n = <<>> THEN <<>>
    ELSE [i \in 1..(k \div LimbBits) |-> 0] \o NTimesLimb(n, 2^(k % LimbBits))

\* n \div 2^(LimbBits * w + r), r below LimbBits
NShrBy(n, w, r) ==
    [i \in 1..(Len(n) - w) |->
        (NLimb(n, i + w) \div 2^r) + (NLimb(n, i + w + 1) % 2^r) * 2^(LimbBits - r)]

\* n \div 2^k
NShr(n, k) == NTrim(NShrBy(n, k \div LimbBits, k % LimbBits))

\* number of low zero bits of n # 0
NLowZeros(n) ==
    (CHOOSE j \in 1..(LimbBits * Len(n)) :
        NBit(n, j) = 1 /\ \A h \in 1..(j - 1) : NBit(n, h) = 0) - 1

\* Long division of a by b (b # 0), high limb first.  DivDigit is the next
\* quotient digit for the running remainder r, NDivFrom the <<quotient,
\* remainder>> once the limbs of a down to limb i are consumed.
DivDigit(r, b) ==
    CHOOSE x \in 0..(Base - 1) :
        NGeq(r, NTimesLimb(b, x)) /\ ~ NGeq(r, NTimesLimb(b, x + 1))

DivTake(q, r, b, d) == <<NTrim(<<d>> \o q), NSub(r, NTimesLimb(b, d))>>

DivNext(q, r, b) == DivTake(q, r, b, DivDigit(r, b))

DivStep(limb, b, qr) ==
    IF qr[2] = <<>> /\ limb = 0
    THEN <<IF qr[1] = <<>> THEN <<>> ELSE <<0>> \o qr[1], <<>> >>
    ELSE DivNext(qr[1], NTrim(<<limb>> \o qr[2]), b)

RECURSIVE NDivFrom(_, _, _)
NDivFrom(a, b, i) ==
    IF i > Len(a) THEN << <<>>, <<>> >>
    ELSE DivStep(a[i], b, NDivFrom(a, b, i + 1))

NDivMod(a, b) == NDivFrom(a, b, 1)

(***************************************************************************)
(* Python values.  k is the kind; an int carries i, a bytes object b, a    *)
(* float its sign s, significand m (odd, or <<>> for zero) and binary      *)
(* exponent e: the float is (-1)^s * m * 2^e.  Exponents stay far inside   *)
(* the normal range of binary64 for every value the model computes.  A     *)
(* decimal literal of the source text, i / e, has kind "literal" until it  *)
(* is evaluated.                                                           *)
(***************************************************************************)
PyInt(n)         == [k |-> "int",   i |-> n, s |-> 0, m |-> <<>>, e |-> 0, b |-> <<>>]
PyBytes(bs)      == [k |-> "bytes", i |-> 0, s |-> 0, m |-> <<>>, e |-> 0, b |-> bs]
PyFloat(s, m, e) == [k |-> "float", i |-> 0, s |-> s, m |-> m,    e |-> e, b |-> <<>>]
Decimal(n, d)    == [k |-> "literal", i |-> n, s |-> 0, m |-> <<>>, e |-> d, b |-> <<>>]
\* the outcome of an operation that raises TypeError instead of giving a value
PyTypeError      == [k |-> "TypeError", i |-> 0, s |-> 0, m |-> <<>>, e |-> 0, b |-> <<>>]

DoubleBits == 53
SingleBits == 24

\* (-1)^s * n * 2^e as a float, n having z low zero bits
Shifted(s, n, e, z) == PyFloat(s, NShr(n, z), e + z)

\* (-1)^s * n * 2^e as a float, for n of at most 53 bits
Exact(s, n, e) ==
    IF n = <<>> THEN PyFloat(s, <<>>, 0) ELSE Shifted(s, n, e, NLowZeros(n))

\* q, or q + 1 when the bits cut off are above half of q's last bit, or are
\* exactly half of it and q is odd
Nearest(q, half, rest) ==
    IF half /\ (rest \/ NBit(q, 1) = 1) THEN NAdd(q, <<1>>) ELSE q

\* n without its sh low bits, rounded to nearest, ties to even; sticky tells
\* that a non-zero fraction below the lowest bit of n was dropped before
Cut(n, sh, sticky) ==
    Nearest(NShr(n, sh), NBit(n, sh) = 1,
            sticky \/ \E j \in 1..(sh - 1) : NBit(n, j) = 1)

\* FRound for n of L bits
RoundTo(p, s, n, e, sticky, L) ==
    Exact(s, IF L <= p THEN n ELSE Cut(n, L - p, sticky),
             IF L <= p THEN e ELSE e + L - p)

\* (-1)^s * n * 2^e (plus a non-zero fraction of the last bit when sticky),
\* rounded to p significant bits, ties to even
FRound(p, s, n, e, sticky) == RoundTo(p, s, n, e, sticky, NBitLen(n))

\* float(n) for a Python int n; every int of the model is below 2^53
FromInt(n) == Exact(IF n < 0 THEN 1 ELSE 0, NFromNat(IF n < 0 THEN -n ELSE n), 0)

ToFloat(v) == IF v.k = "int" THEN FromInt(v.i) ELSE v

\* a * b on floats
FMul(a, b) ==
    IF a.m = <<>> \/ b.m = <<>> THEN PyFloat((a.s + b.s) % 2, <<>>, 0)
    ELSE FRound(DoubleBits, (a.s + b.s) % 2, NMul(a.m, b.m), a.e + b.e, FALSE)

\* the quotient qr[1] and remainder qr[2] of a.m * 2^k by b.m, as a float
Quotient(a, b, k, qr) ==
    IF Len(qr) # 2 THEN a
    ELSE FRound(DoubleBits, (a.s + b.s) % 2, qr[1], a.e - b.e - k, qr[2] # <<>>)

\* a / b with the dividend scaled by 2^k, enough for 55 quotient bits
DivideAt(a, b, k) == Quotient(a, b, k, NDivMod(NShl(a.m, k), b.m))

\* a / b on floats, b # 0
FDiv(a, b) ==
    IF a.m = <<>> \/ b.m = <<>> THEN PyFloat((a.s + b.s) % 2, <<>>, 0)
    ELSE DivideAt(a, b, NBitLen(b.m) + DoubleBits + 2)

\* the value of an expression of the source text: a decimal literal n/d
\* denotes the nearest double
Eval(v) == IF v.k = "literal" THEN FDiv(FromInt(v.i), FromInt(v.e)) ELSE v

\* a double converted to binary32 and back (struct's "f")
ToSingle(a) == FRound(SingleBits, a.s, a.m, a.e, FALSE)

\* == on two floats
FloatEq(x, y) == (x.m = <<>> /\ y.m = <<>>) \/ x = y

\* Python's == on two values
PyEq(a, b) ==
    IF a.k = "bytes" \/ b.k = "bytes" THEN a.k = b.k /\ a.b = b.b
    ELSE IF a.k = "int" /\ b.k = "int" THEN a.i = b.i
    ELSE FloatEq(ToFloat(a), ToFloat(b))

RECURSIVE BytesRepeat(_, _)
BytesRepeat(bs, n) == IF n <= 0 THEN <<>> ELSE bs \o BytesRepeat(bs, n - 1)

\* Python's  val * factor  for the factors an UdsField carries (the int 1
\* or a float); PyTypeError when the operands do not multiply
PyMul(v, f) ==
    IF v.k = "bytes"
    THEN IF f.k = "int" THEN PyBytes(BytesRepeat(v.b, f.i)) ELSE PyTypeError
    ELSE IF v.k = "int" /\ f.k = "int" THEN PyInt(v.i * f.i)
    ELSE FMul(ToFloat(v), ToFloat(f))

(***************************************************************************)
(* The struct module, for the byte order and the format characters the     *)
(* repository uses.  A format string is a sequence of characters; the      *)
(* placeholder "{}" of a variable-length field is one element, as no       *)
(* operation of the program ever separates its two characters.             *)
(***************************************************************************)
Digits == <<"0", "1", "2", "3", "4", "5", "6", "7", "8", "9">>
IsDigit(c) == \E i \in 1..Len(Digits) : Digits[i] = c
DigitVal(c) == (CHOOSE i \in 1..Len(Digits) : Digits[i] = c) - 1

FormatCodes == {"d", "f", "h", "H", "B", "s"}

\* bytes one item of the code takes
CodeSize(c) ==
    CASE c = "d" -> 8
      [] c = "f" -> 4
      [] c = "h" -> 2
      [] c = "H" -> 2
      [] OTHER   -> 1

\* str(n): the decimal characters of an int
RECURSIVE NatStr(_)
NatStr(n) ==
    IF n < Len(Digits) THEN <<Digits[n + 1]>>
    ELSE NatStr(n \div Len(Digits)) \o <<Digits[(n % Len(Digits)) + 1]>>

IntStr(n) == IF n < 0 THEN <<"-">> \o NatStr(-n) ELSE NatStr(n)

\* an item put before the items parsed after it
ItemThen(item, r) == [ok |-> r.ok, items |-> <<item>> \o r.items]

\* The items of a format from character i on: a repeat count (cnt, given
\* when has) and a code each; ok is FALSE for a format struct rejects.
RECURSIVE ParseItems(_, _, _, _)
ParseItems(fmt, i, cnt, has) ==
    IF i > Len(fmt) THEN [ok |-> ~has, items |-> <<>>]
    ELSE IF IsDigit(fmt[i])
    THEN ParseItems(fmt, i + 1, cnt * Len(Digits) + DigitVal(fmt[i]), TRUE)
    ELSE IF fmt[i] \in FormatCodes
    THEN ItemThen([code |-> fmt[i], n |-> IF has THEN cnt ELSE 1],
                  ParseItems(fmt, i + 1, 0, FALSE))
    ELSE [ok |-> FALSE, items |-> <<>>]

\* the format after its byte-order character
ParseFmt(fmt) ==
    IF fmt # <<>> /\ fmt[1] = ">" THEN ParseItems(fmt, 2, 0, FALSE)
    ELSE [ok |-> FALSE, items |-> <<>>]

\* one slot per value: an "s" item is one value of n bytes, any other item n
\* values of its code
RECURSIVE Slots(_)
Slots(items) ==
    IF items = <<>> THEN <<>>
    ELSE (IF Head(items).code = "s" THEN <<Head(items)>>
          ELSE [j \in 1..Head(items).n |-> [code |-> Head(items).code, n |-> 1]])
         \o Slots(Tail(items))

SlotSize(sl) == IF sl.code = "s" THEN sl.n ELSE CodeSize(sl.code)

RECURSIVE SlotsSize(_)
SlotsSize(sl) == IF sl = <<>> THEN 0 ELSE SlotSize(Head(sl)) + SlotsSize(Tail(sl))

ParsedSize(p) == IF p.ok THEN SlotsSize(Slots(p.items)) ELSE -1

\* struct.calcsize(fmt), -1 when struct.error is raised
CalcSize(fmt) == ParsedSize(ParseFmt(fmt))

\* the size big-endian bytes of the integer v, in two's complement
IntBytes(v, size) ==
    [j \in 1..size |-> ((v % (Base^size)) \div (Base^(size - j))) % Base]

\* IEEE-754 binary64, big-endian: sign, the 11 bits of the biased exponent
\* E, and the 52 fraction bits of the 53 bit significand M
DoubleBytes(s, E, M) ==
    <<s * 128 + E \div 16, (E % 16) * 16 + (M[7] - 16),
      M[6], M[5], M[4], M[3], M[2], M[1]>>

DoubleOf(x, L) == DoubleBytes(x.s, x.e + L - 1 + 1023, NShl(x.m, DoubleBits - L))

EncodeDouble(x) ==
    IF x.m = <<>> THEN <<x.s * 128, 0, 0, 0, 0, 0, 0, 0>>
    ELSE DoubleOf(x, NBitLen(x.m))

\* IEEE-754 binary32: sign, 8 exponent bits, 23 fraction bits
SingleBytes(s, E, M) ==
    <<s * 128 + E \div 2, (E % 2) * 128 + (M[3] - 128), M[2], M[1]>>

PackOk(bs)   == [err |-> "none", bytes |-> bs]
PackErr(e)   == [err |-> e, bytes |-> <<>>]

\* a float y already rounded to 24 bits, of L significant bits: struct
\* raises OverflowError above the largest binary32
SingleOf(y, L) ==
    IF y.e + L - 1 > 127 THEN PackErr("OverflowError")
    ELSE PackOk(SingleBytes(y.s, y.e + L - 1 + 127, NShl(y.m, SingleBits - L)))

EncodeSingle(y) ==
    IF y.m = <<>> THEN PackOk(<<y.s * 128, 0, 0, 0>>)
    ELSE SingleOf(y, NBitLen(y.m))

\* (the all-ones exponent, an infinity or a NaN, is on no wire of the model)
DecodeDouble(bs) ==
    LET E == (bs[1] % 128) * 16 + bs[2] \div 16
    IN  Exact(bs[1] \div 128,
              NTrim(<<bs[8], bs[7], bs[6], bs[5], bs[4], bs[3],
                      (bs[2] % 16) + (IF E = 0 THEN 0 ELSE 16)>>),
              IF E = 0 THEN -1074 ELSE E - 1075)

DecodeSingle(bs) ==
    LET E == (bs[1] % 128) * 2 + bs[2] \div 128
    IN  Exact(bs[1] \div 128,
              NTrim(<<bs[4], bs[3], (bs[2] % 128) + (IF E = 0 THEN 0 ELSE 128)>>),
              IF E = 0 THEN -149 ELSE E - 150)

\* the bytes of a float under "d" or "f"
FloatSlot(code, x) ==
    IF code = "d" THEN PackOk(EncodeDouble(x)) ELSE EncodeSingle(ToSingle(x))

\* the bytes of an int under "h", "H" or "B": struct.error outside the range
IntSlot(code, i) ==
    IF \/ i < (IF code = "h" THEN -(2^15) ELSE 0)
       \/ i > (CASE code = "h" -> 2^15 - 1 [] code = "H" -> 2^16 - 1 [] OTHER -> 2^8 - 1)
    THEN PackErr("struct.error")
    ELSE PackOk(IntBytes(i, CodeSize(code)))

\* the bytes of one value under one slot of the format
EncodeSlot(sl, v) ==
    IF sl.code = "s"
    THEN IF v.k # "bytes" THEN PackErr("struct.error")
         ELSE PackOk([j \in 1..sl.n |-> IF j <= Len(v.b) THEN v.b[j] ELSE 0])
    ELSE IF sl.code \in {"d", "f"}
    THEN IF v.k \notin {"int", "float"} THEN PackErr("struct.error")
         ELSE FloatSlot(sl.code, ToFloat(v))
    ELSE IF v.k # "int" THEN PackErr("struct.error")
    ELSE IntSlot(sl.code, v.i)

\* the bytes of one slot followed by those of the slots after it
PackJoin(r, rest) ==
    IF r.err # "none" THEN r
    ELSE IF rest.err # "none" THEN rest
    ELSE PackOk(r.bytes \o rest.bytes)

RECURSIVE PackSlots(_, _, _)
PackSlots(sl, args, i) ==
    IF i > Len(sl) THEN PackOk(<<>>)
    ELSE PackJoin(EncodeSlot(sl[i], args[i]), PackSlots(sl, args, i + 1))

PackInto(sl, args) ==
    IF Len(sl) # Len(args) THEN PackErr("struct.error")
    ELSE PackSlots(sl, args, 1)

PackParsed(p, args) ==
    IF ~p.ok THEN PackErr("struct.error") ELSE PackInto(Slots(p.items), args)

\* struct.pack(fmt, *args)
StructPack(fmt, args) == PackParsed(ParseFmt(fmt), args)

\* the value one slot decodes from its bytes
DecodeSlot(sl, bs) ==
    CASE sl.code = "s" -> PyBytes(bs)
      [] sl.code = "d" -> DecodeDouble(bs)
      [] sl.code = "f" -> DecodeSingle(bs)
      [] sl.code = "h" -> PyInt(IF bs[1] >= 2^7 THEN bs[1] * Base + bs[2] - 2^16
                                ELSE bs[1] * Base + bs[2])
      [] sl.code = "H" -> PyInt(bs[1] * Base + bs[2])
      [] OTHER         -> PyInt(bs[1])

RECURSIVE UnpackSlots(_, _, _, _)
UnpackSlots(sl, bs, i, off) ==
    IF i > Len(sl) THEN <<>>
    ELSE <<DecodeSlot(sl[i], SubSeq(bs, off + 1, off + SlotSize(sl[i])))>>
         \o UnpackSlots(sl, bs, i + 1, off + SlotSize(sl[i]))

UnpackFrom(sl, bs) ==
    IF SlotsSize(sl) # Len(bs) THEN [err |-> "struct.error", vals |-> <<>>]
    ELSE [err |-> "none", vals |-> UnpackSlots(sl, bs, 1, 0)]

UnpackParsed(p, bs) ==
    IF ~p.ok THEN [err |-> "struct.error", vals |-> <<>>]
    ELSE UnpackFrom(Slots(p.items), bs)

\* struct.unpack(fmt, data): the buffer must have exactly the format's size
StructUnpack(fmt, bs) == UnpackParsed(ParseFmt(fmt), bs)

\* ------------------------------------------------------------------------
\* Operations on format strings
\* ------------------------------------------------------------------------
_ENDIANNESS == <<">">>
NO_SUBFUNCTION == 0

\* the position of the first "{}" of a format string, 0 when it has none
FirstPlaceholder(s) ==
    IF \A i \in 1..Len(s) : s[i] # "{}" THEN 0
    ELSE CHOOSE i \in 1..Len(s) : s[i] = "{}" /\ \A j \in 1..(i - 1) : s[j] # "{}"

\* "".join(parts)
RECURSIVE join(_)
join(parts) == IF parts = <<>> THEN <<>> ELSE Head(parts) \o join(Tail(parts))

\* s.split("{}"): never empty, "" splits into [""]
RECURSIVE split(_)
SplitAt(s, i) ==
    IF i = 0 THEN <<s>>
    ELSE <<SubSeq(s, 1, i - 1)>> \o split(SubSeq(s, i + 1, Len(s)))

split(s) == SplitAt(s, FirstPlaceholder(s))

\* s.replace("{}", "")
replace(s) == SelectSeq(s, LAMBDA c : c # "{}")

\* the text before the first placeholder, str(arg), and the formatted rest
Formatted(head, arg, rest) ==
    IF rest.err # "none" THEN rest
    ELSE [err |-> "none", fmt |-> head \o IntStr(arg) \o rest.fmt]

\* s.format(*args) for integer arguments: the k-th "{}" becomes str(args[k]);
\* surplus arguments are ignored, a missing one raises IndexError
RECURSIVE format(_, _)
FormatAt(s, args, i) ==
    IF i = 0 THEN [err |-> "none", fmt |-> s]
    ELSE IF args = <<>> THEN [err |-> "IndexError", fmt |-> <<>>]
    ELSE Formatted(SubSeq(s, 1, i - 1), Head(args),
                   format(SubSeq(s, i + 1, Len(s)), Tail(args)))

format(s, args) == FormatAt(s, args, FirstPlaceholder(s))

\* ------------------------------------------------------------------------
\* UdsField and the record types
\* ------------------------------------------------------------------------
\* UdsField.__init__: subfunctions is kept as a set; default and resolution
\* are the expressions of the declaration
UdsField(name, default, fmt, subfunctions, resolution) ==
    [name |-> name, uds |-> TRUE, default |-> default, fmt |-> fmt,
     subfunctions |-> subfunctions, resolution |-> resolution]

\* the plain dataclass field ServiceData.subfunction, which is no UdsField
SubfunctionField ==
    [name |-> "subfunction", uds |-> FALSE, default |-> PyInt(NO_SUBFUNCTION),
     fmt |-> <<>>, subfunctions |-> {}, resolution |-> PyInt(1)]

\* a scale factor that ignores the resolution
ScaleFactor_unit(resolution) == PyInt(1)

\* 1 if resolution == 1 else 1.0 / resolution
ScaleFactor(resolution) ==
    IF PyEq(resolution, PyInt(1)) THEN PyInt(1)
    ELSE FDiv(FromInt(1), ToFloat(resolution))

\* UdsField.scale_factor and UdsField.resolution
scale_factor(f) == ScaleFactor(Eval(f.resolution))
resolution(f) == Eval(f.resolution)

has_variable_length(f) == \E i \in 1..Len(f.fmt) : f.fmt[i] = "{}"

\* a filter that keeps only the fields naming the subfunction
supports_subfonction_listed(f, subfunction) ==
    subfunction \in f.subfunctions

supports_subfonction(f, subfunction) ==
    f.subfunctions = {} \/ subfunction \in f.subfunctions

EmptyServiceData == <<SubfunctionField>>

SimpleServiceData ==
    <<SubfunctionField,
      UdsField("an_int", PyInt(42), <<"d">>, {}, PyInt(1)),
      UdsField("a_float", Decimal(314, 100), <<"f">>, {}, PyInt(1))>>

AdvancedServiceData ==
    <<SubfunctionField,
      UdsField("an_int", PyInt(42), <<"d">>, {}, PyInt(1)),
      UdsField("a_float", Decimal(314, 100), <<"f">>, {1}, PyInt(1))>>

ScaledServiceData ==
    <<SubfunctionField,
      UdsField("an_int", PyInt(42), <<"d">>, {}, PyInt(1)),
      UdsField("a_float", Decimal(314, 100), <<"f">>, {1}, Decimal(1, 10))>>

SimpleVariadicServiceData ==
    <<SubfunctionField,
      UdsField("an_int", PyInt(42), <<"d">>, {}, PyInt(1)),
      UdsField("some_bytes", PyBytes(<<>>), <<"h", "{}", "s">>, {}, PyInt(1)),
      UdsField("a_float", Decimal(314, 100), <<"f">>, {}, PyInt(1))>>

ResponseDataPost2006 ==
    <<SubfunctionField,
      UdsField("p2_server_max", Decimal(100, 1), <<"H">>, {}, Decimal(1, 1000)),
      UdsField("p2_star_server_max", Decimal(100, 1), <<"H">>, {}, Decimal(1, 100))>>

ResponseDataPre2006 ==
    <<SubfunctionField,
      UdsField("session_param_records", PyBytes(<<>>), <<"2", "s">>, {}, PyInt(1))>>

\* Record types a user of the library declares with uds_field, covering the
\* shapes the repository's own types do not: a power-of-two resolution,
\* several variable-length fields (separated and adjacent), a
\* variable-length field and a fixed field applicable to subfunction 1 only,
\* and a type declared with @dataclass(eq=False)
HalfScaledServiceData ==
    <<SubfunctionField,
      UdsField("an_int", PyInt(42), <<"d">>, {}, PyInt(1)),
      UdsField("a_float", Decimal(314, 100), <<"f">>, {1}, Decimal(1, 2))>>

TwoVariadicServiceData ==
    <<SubfunctionField,
      UdsField("first_bytes", PyBytes(<<>>), <<"h", "{}", "s">>, {}, PyInt(1)),
      UdsField("an_int", PyInt(3), <<"h">>, {}, PyInt(1)),
      UdsField("last_bytes", PyBytes(<<>>), <<"h", "{}", "s">>, {}, PyInt(1))>>

AdjacentVariadicServiceData ==
    <<SubfunctionField,
      UdsField("first_bytes", PyBytes(<<>>), <<"h", "{}", "s">>, {}, PyInt(1)),
      UdsField("last_bytes", PyBytes(<<>>), <<"h", "{}", "s">>, {}, PyInt(1))>>

SubfunctionVariadicServiceData ==
    <<SubfunctionField,
      UdsField("an_int", PyInt(3), <<"h">>, {}, PyInt(1)),
      UdsField("some_bytes", PyBytes(<<>>), <<"h", "{}", "s">>, {1}, PyInt(1))>>

SubfunctionOnlyServiceData ==
    <<SubfunctionField,
      UdsField("an_int", PyInt(3), <<"h">>, {1}, PyInt(1))>>

InheritedEqServiceData ==
    <<SubfunctionField,
      UdsField("an_int", PyInt(3), <<"h">>, {}, PyInt(1)),
      UdsField("a_byte", PyInt(0), <<"B">>, {1}, PyInt(1))>>

RecordTypes ==
    {"EmptyServiceData", "SimpleServiceData", "AdvancedServiceData",
     "ScaledServiceData", "SimpleVariadicServiceData", "ResponseDataPost2006",
     "ResponseDataPre2006", "HalfScaledServiceData", "TwoVariadicServiceData",
     "AdjacentVariadicServiceData", "SubfunctionVariadicServiceData",
     "SubfunctionOnlyServiceData", "InheritedEqServiceData"}

\* dataclasses.fields(cls): the inherited subfunction field, then the
\* fields of the class in declaration order
fields(cls) ==
    CASE cls = "EmptyServiceData"               -> EmptyServiceData
      [] cls = "SimpleServiceData"              -> SimpleServiceData
      [] cls = "AdvancedServiceData"            -> AdvancedServiceData
      [] cls = "ScaledServiceData"              -> ScaledServiceData
      [] cls = "SimpleVariadicServiceData"      -> SimpleVariadicServiceData
      [] cls = "ResponseDataPost2006"           -> ResponseDataPost2006
      [] cls = "ResponseDataPre2006"            -> ResponseDataPre2006
      [] cls = "HalfScaledServiceData"          -> HalfScaledServiceData
      [] cls = "TwoVariadicServiceData"         -> TwoVariadicServiceData
      [] cls = "AdjacentVariadicServiceData"    -> AdjacentVariadicServiceData
      [] cls = "SubfunctionVariadicServiceData" -> SubfunctionVariadicServiceData
      [] cls = "SubfunctionOnlyServiceData"     -> SubfunctionOnlyServiceData
      [] OTHER                                  -> InheritedEqServiceData

\* ------------------------------------------------------------------------
\* ServiceData: the derived, per-(type, subfunction) values
\* ------------------------------------------------------------------------
_iter_parameter_fields(cls, subfunction) ==
    SelectSeq(fields(cls),
              LAMBDA f : f.uds /\ supports_subfonction(f, subfunction))

NameSeq(fs) == [i \in 1..Len(fs) |-> fs[i].name]
FmtSeq(fs) == [i \in 1..Len(fs) |-> fs[i].fmt]

_iter_parameter_names(cls, subfunction) ==
    NameSeq(_iter_parameter_fields(cls, subfunction))

get_payload_fmt(cls, subfunction) ==
    _ENDIANNESS \o join(FmtSeq(_iter_parameter_fields(cls, subfunction)))

\* chunks led by the byte order only
Chunks_bare(static_chunks) ==
    [i \in 1..Len(static_chunks) |-> _ENDIANNESS \o static_chunks[i]]

\* the chunks of a joined format, each led by the byte order and all but
\* the first by the placeholder of the length
Chunks(static_chunks) ==
    IF static_chunks = <<>> THEN <<>>
    ELSE <<_ENDIANNESS \o static_chunks[1]>>
         \o [i \in 1..(Len(static_chunks) - 1) |->
                _ENDIANNESS \o <<"{}">> \o static_chunks[i + 1]]

_iter_payload_fmt(cls, subfunction) ==
    Chunks(split(join(FmtSeq(_iter_parameter_fields(cls, subfunction)))))

get_parameter_names(cls, subfunction) == _iter_parameter_names(cls, subfunction)

get_variadic_parameter_names(cls, subfunction) ==
    NameSeq(SelectSeq(_iter_parameter_fields(cls, subfunction), has_variable_length))

ResolutionSeq(fs) == [i \in 1..Len(fs) |-> resolution(fs[i])]

get_parameter_resolutions(cls, subfunction) ==
    ResolutionSeq(_iter_parameter_fields(cls, subfunction))

ScaleFactorSeq(fs) == [i \in 1..Len(fs) |-> scale_factor(fs[i])]

get_parameter_scaling_factors(cls, subfunction) ==
    ScaleFactorSeq(_iter_parameter_fields(cls, subfunction))

AnyVariadic(fs) == \E i \in 1..Len(fs) : has_variable_length(fs[i])

has_variadic_fields(cls, subfunction) ==
    AnyVariadic(_iter_parameter_fields(cls, subfunction))

\* the members of a finite set of integers in increasing order
RECURSIVE Ascending(_)
Ascending(S) ==
    IF S = {} THEN <<>>
    ELSE <<CHOOSE a \in S : \A b \in S : a <= b>>
         \o Ascending(S \ {CHOOSE a \in S : \A b \in S : a <= b})

\* positions, counted from 0 as enumerate does, of the variable-length fields
VariadicIndexes(fs) ==
    Ascending({i - 1 : i \in {j \in 1..Len(fs) : has_variable_length(fs[j])}})

get_variadic_fields_indexes(cls, subfunction) ==
    VariadicIndexes(_iter_parameter_fields(cls, subfunction))

FmtSizePairs(chunks) ==
    [i \in 1..Len(chunks) |->
        [fmt |-> chunks[i], size |-> CalcSize(replace(chunks[i]))]]

\* the chunks of the layout of NO_SUBFUNCTION, each with the size struct
\* computes for it once the placeholder is removed
_get_fmt_size_pairs(cls) == FmtSizePairs(_iter_payload_fmt(cls, NO_SUBFUNCTION))

\* ------------------------------------------------------------------------
\* Instances: [cls, subfunction, vals], vals mapping each UDS field's name
\* to the attribute's value
\* ------------------------------------------------------------------------
UdsNamesOf(fs) == {fs[i].name : i \in {j \in 1..Len(fs) : fs[j].uds}}
UdsNames(cls) == UdsNamesOf(fields(cls))

NamedIn(fs, n) == fs[CHOOSE i \in 1..Len(fs) : fs[i].name = n]
FieldNamed(cls, n) == NamedIn(fields(cls), n)

\* cls(subfunction=subfunction, **kwargs): attributes without a keyword
\* take the field's default
New(cls, subfunction, kwargs) ==
    [cls |-> cls, subfunction |-> subfunction,
     vals |-> [n \in UdsNames(cls) |->
                  IF n \in DOMAIN kwargs THEN kwargs[n]
                  ELSE Eval(FieldNamed(cls, n).default)]]

NoKwargs == [n \in {} |-> PyInt(0)]

\* the absence of an instance
NoRecord == [cls |-> "None", subfunction |-> NO_SUBFUNCTION, vals |-> NoKwargs]

Min(a, b) == IF a <= b THEN a ELSE b

\* ------------------------------------------------------------------------
\* ServiceData.pack
\* ------------------------------------------------------------------------
\* an insert that appends
insert_last(arg_list, position, x) == Append(arg_list, x)

\* list.insert(position, x) with position counted from 0
insert(arg_list, position, x) ==
    SubSeq(arg_list, 1, Min(position, Len(arg_list))) \o <<x>>
    \o SubSeq(arg_list, Min(position, Len(arg_list)) + 1, Len(arg_list))

\* for length, position in zip(lengths, length_indexes): arg_list.insert(...)
RECURSIVE InsertLengths(_, _, _, _)
InsertLengths(arg_list, lengths, length_indexes, j) ==
    IF j > Min(Len(lengths), Len(length_indexes)) THEN arg_list
    ELSE InsertLengths(insert(arg_list, length_indexes[j], PyInt(lengths[j])),
                       lengths, length_indexes, j + 1)

\* val * scale for val, scale in zip(value_getter, scaling factors)
ScaledValues(self, names, factors) ==
    [j \in 1..Min(Len(names), Len(factors)) |->
        PyMul(self.vals[names[j]], factors[j])]

\* struct.pack(fmt, *arg_list) for the formatted layout
PackFormatted(fmt, arg_list) ==
    IF fmt.err # "none" THEN PackErr(fmt.err) ELSE StructPack(fmt.fmt, arg_list)

\* the lengths are inserted, and injected into get_payload_fmt()
PackLengths(self, arg_list, length_indexes, lengths) ==
    PackFormatted(format(get_payload_fmt(self.cls, NO_SUBFUNCTION), lengths),
                  InsertLengths(arg_list, lengths, length_indexes, 1))

\* lengths = tuple(map(len, (arg_list[i] for i in length_indexes)))
PackVariadic(self, arg_list, length_indexes) ==
    IF \E j \in 1..Len(length_indexes) : arg_list[length_indexes[j] + 1].k # "bytes"
    THEN PackErr("TypeError")
    ELSE PackLengths(self, arg_list, length_indexes,
                     [j \in 1..Len(length_indexes) |->
                         Len(arg_list[length_indexes[j] + 1].b)])

PackArgs(self, format_strings, args) ==
    IF format_strings = <<>> THEN PackOk(<<>>)
    ELSE IF \E j \in 1..Len(args) : args[j] = PyTypeError THEN PackErr("TypeError")
    ELSE IF Len(format_strings) = 1 THEN StructPack(format_strings[1], args)
    ELSE PackVariadic(self, args,
                      get_variadic_fields_indexes(self.cls, self.subfunction))

\* ServiceData.pack: [err, bytes]
pack(self) ==
    PackArgs(self, _iter_payload_fmt(self.cls, self.subfunction),
             ScaledValues(self, get_parameter_names(self.cls, self.subfunction),
                          get_parameter_scaling_factors(self.cls, self.subfunction)))

\* ------------------------------------------------------------------------
\* ServiceData.unpack
\* ------------------------------------------------------------------------
\* the data argument: None or a byte sequence
None == [none |-> TRUE, b |-> <<>>]
Bytes(bs) == [none |-> FALSE, b |-> bs]

\* a truth value that takes b"" for data
truthy_present(data) == ~data.none

\* the truth value of data: None and b"" are false
truthy(data) == ~data.none /\ data.b # <<>>

\* k for slice bounds: negative bounds count from the end, all are clipped
ClipIndex(k, n) ==
    IF k < 0 THEN (IF k + n < 0 THEN 0 ELSE k + n) ELSE IF k > n THEN n ELSE k

\* data[start:stop]
PySlice(bs, start, stop) ==
    SubSeq(bs, ClipIndex(start, Len(bs)) + 1, ClipIndex(stop, Len(bs)))

Raise(e, names, trace) ==
    [err |-> e, rec |-> NoRecord, names |-> names, trace |-> trace]

Return(rec, names, trace) ==
    [err |-> "none", rec |-> rec, names |-> names, trace |-> trace]

\* {k: v for k, v in zip(names, scaled)}
Kwargs(names, scaled) ==
    [k \in {names[j] : j \in 1..Len(scaled)} |->
        scaled[CHOOSE j \in 1..Len(scaled) : names[j] = k]]

\* v * res for k, v, res in zip(parameter_names, args, resolutions)
ScaledArgs(parameter_names, args, resolutions) ==
    [j \in 1..Min(Len(parameter_names), Min(Len(args), Len(resolutions))) |->
        PyMul(args[j], resolutions[j])]

BuildScaled(cls, subfunction, parameter_names, trace, scaled) ==
    IF \E j \in 1..Len(scaled) : scaled[j] = PyTypeError
    THEN Raise("TypeError", parameter_names, trace)
    ELSE Return(New(cls, subfunction, Kwargs(parameter_names, scaled)),
                parameter_names, trace)

\* cls(subfunction=subfunction, **kwargs) from the decoded args
Build(cls, subfunction, parameter_names, args, trace) ==
    BuildScaled(cls, subfunction, parameter_names, trace,
                ScaledArgs(parameter_names, args,
                           get_parameter_resolutions(cls, subfunction)))

\* The loop over the chunks: [err, args, trace], trace holding start_index
\* and end_index as they stand when each chunk is handed to struct.unpack.
\* ChunkDone continues after the chunk's struct.unpack gave r.
RECURSIVE UnpackChunks(_, _, _, _, _, _, _)
ChunkDone(pairs, i, bs, stop, args, trace, r) ==
    IF r.err # "none" THEN [err |-> r.err, args |-> args, trace |-> trace]
    ELSE UnpackChunks(pairs, i + 1, bs, stop, stop, args \o r.vals, trace)

\* one chunk without a length to pop
ChunkPlain(pairs, i, bs, start_index, stop, trace) ==
    ChunkDone(pairs, i, bs, stop, <<>>,
              Append(trace, [start_index |-> start_index, end_index |-> stop]),
              StructUnpack(pairs[i].fmt, PySlice(bs, start_index, stop)))

\* one chunk after next_length = args.pop()
ChunkSized(pairs, i, bs, start_index, stop, args, trace, next_length) ==
    ChunkDone(pairs, i, bs, stop, args,
              Append(trace, [start_index |-> start_index, end_index |-> stop]),
              StructUnpack(format(pairs[i].fmt, <<next_length>>).fmt,
                           PySlice(bs, start_index, stop)))

UnpackChunks(pairs, i, bs, start_index, end_index, args, trace) ==
    IF i > Len(pairs) THEN [err |-> "none", args |-> args, trace |-> trace]
    ELSE IF args = <<>>
    THEN ChunkPlain(pairs, i, bs, start_index, end_index + pairs[i].size, trace)
    ELSE IF args[Len(args)].k # "int"
    THEN [err |-> "TypeError", args |-> SubSeq(args, 1, Len(args) - 1),
          trace |-> trace]
    ELSE ChunkSized(pairs, i, bs, start_index,
                    end_index + args[Len(args)].i + pairs[i].size,
                    SubSeq(args, 1, Len(args) - 1), trace, args[Len(args)].i)

\* the one-chunk path: args = struct.unpack(fmt, data)
OneShot(r) == [err |-> r.err, args |-> r.vals, trace |-> <<>>]

\* the multi-chunk path over the pairs of _get_fmt_size_pairs()
ManyShots(pairs, bs) ==
    IF \E i \in 1..Len(pairs) : pairs[i].size < 0
    THEN [err |-> "struct.error", args |-> <<>>, trace |-> <<>>]
    ELSE UnpackChunks(pairs, 1, bs, 0, 0, <<>>, <<>>)

Decoded(cls, subfunction, parameter_names, r) ==
    IF r.err # "none" THEN Raise(r.err, parameter_names, r.trace)
    ELSE Build(cls, subfunction, parameter_names, r.args, r.trace)

UnpackWith(cls, data, subfunction, parameter_names, format_strings) ==
    Decoded(cls, subfunction, parameter_names,
            IF Len(format_strings) = 1
            THEN OneShot(StructUnpack(format_strings[1], data.b))
            ELSE ManyShots(_get_fmt_size_pairs(cls), data.b))

UnpackNamed(cls, data, subfunction, parameter_names) ==
    IF parameter_names = <<>>
    THEN IF truthy(data) THEN Raise("ValueError", parameter_names, <<>>)
         ELSE Return(New(cls, NO_SUBFUNCTION, NoKwargs), parameter_names, <<>>)
    ELSE IF ~truthy(data) THEN Raise("ValueError", parameter_names, <<>>)
    ELSE UnpackWith(cls, data, subfunction, parameter_names,
                    _iter_payload_fmt(cls, subfunction))

\* ServiceData.unpack(data, subfunction): [err, rec, names, trace]
unpack(cls, data, subfunction) ==
    UnpackNamed(cls, data, subfunction, get_parameter_names(cls, subfunction))

\* ------------------------------------------------------------------------
\* Equality
\* ------------------------------------------------------------------------
Attributes(self, names) == [j \in 1..Len(names) |-> self.vals[names[j]]]

\* get_parameter_values(subfunction, scale): the attributes named by the
\* subfunction's parameter names, each times its scaling factor when scaled
get_parameter_values(self, subfunction, scale) ==
    IF ~scale THEN Attributes(self, _iter_parameter_names(self.cls, subfunction))
    ELSE ScaledValues(self, _iter_parameter_names(self.cls, subfunction),
                      get_parameter_scaling_factors(self.cls, subfunction))

Zip(names, values) ==
    [j \in 1..Min(Len(names), Len(values)) |-> <<names[j], values[j]>>]

\* get_parameter_items(subfunction): (name, scaled value) pairs
get_parameter_items(self, subfunction) ==
    Zip(get_parameter_names(self.cls, subfunction),
        get_parameter_values(self, subfunction, TRUE))

\* all(kv_1 == kv_2 for kv_1, kv_2 in zip(mine, theirs))
ItemsEqual(mine, theirs) ==
    \A j \in 1..Min(Len(mine), Len(theirs)) :
        mine[j][1] = theirs[j][1] /\ PyEq(mine[j][2], theirs[j][2])

\* ServiceData.__eq__: both sides' items are taken for the default
\* subfunction, and zip stops at the shorter sequence
ServiceData__eq__(self, other) ==
    [implemented |-> TRUE,
     value |-> ItemsEqual(get_parameter_items(self, NO_SUBFUNCTION),
                          get_parameter_items(other, NO_SUBFUNCTION))]

\* the __eq__ that @dataclass writes into a decorated class: NotImplemented
\* for another class, else the tuples of all fields compared
Dataclass__eq__(self, other) ==
    IF other.cls # self.cls THEN [implemented |-> FALSE, value |-> FALSE]
    ELSE [implemented |-> TRUE,
          value |-> /\ self.subfunction = other.subfunction
                    /\ \A n \in DOMAIN self.vals : PyEq(self.vals[n], other.vals[n])]

\* EmptyServiceData is not decorated and InheritedEqServiceData is declared
\* with eq=False: both inherit ServiceData.__eq__
GeneratedEq(cls) == cls \notin {"EmptyServiceData", "InheritedEqServiceData"}

__eq__(self, other) ==
    IF GeneratedEq(self.cls) THEN Dataclass__eq__(self, other)
    ELSE ServiceData__eq__(self, other)

\* the left operand's __eq__ gave fwd, the reflected one gives rev; two
\* distinct objects that both return NotImplemented are unequal
Resolve(fwd, rev) ==
    IF fwd.implemented THEN fwd.value
    ELSE IF rev.implemented THEN rev.value
    ELSE FALSE

\* a == b for two distinct objects
Equals(a, b) == Resolve(__eq__(a, b), __eq__(b, a))

\* ------------------------------------------------------------------------
\* Services: BaseService and the classes derived from it
\* ------------------------------------------------------------------------
\* udsoncan.response_code.ResponseCode: the codes the services name, with
\* their ISO 14229-1 values
ResponseCode ==
    [GeneralReject                             |-> 16,    \* 0x10
     ServiceNotSupported                       |-> 17,    \* 0x11
     SubFunctionNotSupported                   |-> 18,    \* 0x12
     IncorrectMessageLengthOrInvalidFormat     |-> 19,    \* 0x13
     ResponseTooLong                           |-> 20,    \* 0x14
     BusyRepeatRequest                         |-> 33,    \* 0x21
     ConditionsNotCorrect                      |-> 34,    \* 0x22
     NoResponseFromSubnetComponent             |-> 37,    \* 0x25
     FailurePreventsExecutionOfRequestedAction |-> 38,    \* 0x26
     RequestOutOfRange                         |-> 49,    \* 0x31
     SecurityAccessDenied                      |-> 51,    \* 0x33
     AuthenticationRequired                    |-> 52,    \* 0x34
     SecureDataTransmissionRequired            |-> 56,    \* 0x38
     SecureDataTransmissionNotAllowed          |-> 57,    \* 0x39
     RequestCorrectlyReceived_ResponsePending  |-> 120,   \* 0x78
     SubFunctionNotSupportedInActiveSession    |-> 126,   \* 0x7E
     ServiceNotSupportedInActiveSession        |-> 127,   \* 0x7F
     ResourceTemporarilyNotAvailable           |-> 148]   \* 0x94

\* udsoncan.standards.StandardVersion
StandardVersion == {"UDS_2006", "UDS_2013", "UDS_2020"}

\* class BaseService(ABC): _sid, _use_subfunction and
\* supported_negative_response are annotated only, so the class has no such
\* attributes; get_response_cls returns EmptyServiceData for every version
BaseService ==
    [base  |-> "ABC",
     attrs |-> [always_valid_negative_response |->
                    <<ResponseCode.GeneralReject,
                      ResponseCode.ServiceNotSupported,
                      ResponseCode.ResponseTooLong,
                      ResponseCode.BusyRepeatRequest,
                      ResponseCode.NoResponseFromSubnetComponent,
                      ResponseCode.FailurePreventsExecutionOfRequestedAction,
                      ResponseCode.SecurityAccessDenied,
                      ResponseCode.AuthenticationRequired,
                      ResponseCode.SecureDataTransmissionRequired,
                      ResponseCode.SecureDataTransmissionNotAllowed,
                      ResponseCode.RequestCorrectlyReceived_ResponsePending,
                      ResponseCode.ServiceNotSupportedInActiveSession,
                      ResponseCode.ResourceTemporarilyNotAvailable>>,
                get_response_cls |-> [v \in StandardVersion |-> "EmptyServiceData"]]]

DiagnosticSessionControl ==
    [base  |-> "BaseService",
     attrs |-> [_sid |-> 16,
                supported_negative_response |->
                    <<ResponseCode.SubFunctionNotSupported,
                      ResponseCode.IncorrectMessageLengthOrInvalidFormat,
                      ResponseCode.ConditionsNotCorrect>>,
                get_response_cls |->
                    [v \in StandardVersion |->
                        IF v = "UDS_2006" THEN "ResponseDataPre2006"
                        ELSE "ResponseDataPost2006"]]]

ResponseOnEvent ==
    [base  |-> "BaseService",
     attrs |-> [_sid |-> 134,
                supported_negative_response |->
                    <<ResponseCode.SubFunctionNotSupported,
                      ResponseCode.IncorrectMessageLengthOrInvalidFormat,
                      ResponseCode.ConditionsNotCorrect,
                      ResponseCode.RequestOutOfRange>>]]

ReadScalingDataByIdentifier ==
    [base  |-> "BaseService",
     attrs |-> [_sid |-> 36,
                supported_negative_response |->
                    <<ResponseCode.IncorrectMessageLengthOrInvalidFormat,
                      ResponseCode.ConditionsNotCorrect,
                      ResponseCode.RequestOutOfRange,
                      ResponseCode.SecurityAccessDenied>>]]

ReadDataByPeriodicIdentifier ==
    [base  |-> "BaseService",
     attrs |-> [_sid |-> 42,
                supported_negative_response |->
                    <<ResponseCode.IncorrectMessageLengthOrInvalidFormat,
                      ResponseCode.ConditionsNotCorrect,
                      ResponseCode.RequestOutOfRange,
                      ResponseCode.SecurityAccessDenied>>]]

\* services a caller declares outside of udsoncan.services:
\* class ExtendedSessionControl(DiagnosticSessionControl): pass
ExtendedSessionControl ==
    [base  |-> "DiagnosticSessionControl",
     attrs |-> [__doc__ |-> "a specialization of DiagnosticSessionControl"]]

\* a service with a subfunction byte that declares ConditionsNotCorrect
\* only, with an identifier in the upper quarter of the byte range
ConditionalService ==
    [base  |-> "BaseService",
     attrs |-> [_sid |-> 192,
                supported_negative_response |-> <<ResponseCode.ConditionsNotCorrect>>]]

\* a service without subfunction byte whose response is a record with
\* parameters
PlainService ==
    [base  |-> "BaseService",
     attrs |-> [_sid |-> 35,
                _use_subfunction |-> FALSE,
                supported_negative_response |-> <<ResponseCode.RequestOutOfRange>>,
                get_response_cls |-> [v \in StandardVersion |-> "InheritedEqServiceData"]]]

\* the class object of a name
ServiceClass(name) ==
    CASE name = "BaseService"                  -> BaseService
      [] name = "DiagnosticSessionControl"     -> DiagnosticSessionControl
      [] name = "ResponseOnEvent"              -> ResponseOnEvent
      [] name = "ReadScalingDataByIdentifier"  -> ReadScalingDataByIdentifier
      [] name = "ReadDataByPeriodicIdentifier" -> ReadDataByPeriodicIdentifier
      [] name = "ExtendedSessionControl"       -> ExtendedSessionControl
      [] name = "ConditionalService"           -> ConditionalService
      [] OTHER                                 -> PlainService

\* hasattr(cls, attr): the class or one of its bases has the attribute
RECURSIVE hasattr(_, _)
hasattr(cls, attr) ==
    \/ attr \in DOMAIN ServiceClass(cls).attrs
    \/ cls # "BaseService" /\ hasattr(ServiceClass(cls).base, attr)

\* cls.attr: the attribute of the first class that has it, from cls upwards
RECURSIVE getattr(_, _)
getattr(cls, attr) ==
    IF attr \in DOMAIN ServiceClass(cls).attrs THEN ServiceClass(cls).attrs[attr]
    ELSE getattr(ServiceClass(cls).base, attr)

\* x in lst
In(x, lst) == \E j \in 1..Len(lst) : lst[j] = x

request_id(cls) == getattr(cls, "_sid")

response_id(cls) == getattr(cls, "_sid") + 64

get_response_cls(cls, standard_version) ==
    getattr(cls, "get_response_cls")[standard_version]

default_subfonction_id(cls) == 0

\* a use_subfunction that ignores the _use_subfunction attribute
use_subfunction_always(cls) == TRUE

\* a use_subfunction that is false for a class without _use_subfunction
use_subfunction_declared(cls) ==
    IF hasattr(cls, "_use_subfunction") THEN getattr(cls, "_use_subfunction")
    ELSE FALSE

use_subfunction(cls) ==
    IF hasattr(cls, "_use_subfunction") THEN getattr(cls, "_use_subfunction")
    ELSE TRUE

\* an is_supported_negative_response without the rule for the codes from 0x80
is_supported_negative_response_listed(cls, code) ==
    \/ In(code, getattr(cls, "supported_negative_response"))
    \/ In(code, getattr(cls, "always_valid_negative_response"))
    \/ code = ResponseCode.SubFunctionNotSupportedInActiveSession /\ use_subfunction(cls)

\* the four tests in the order of the code; each sets supported to True
is_supported_negative_response(cls, code) ==
    LET s1 == In(code, getattr(cls, "supported_negative_response"))
        s2 == IF In(code, getattr(cls, "always_valid_negative_response")) THEN TRUE ELSE s1
        s3 == IF /\ code >= 128
                 /\ code < 255
                 /\ In(ResponseCode.ConditionsNotCorrect,
                       getattr(cls, "supported_negative_response"))
              THEN TRUE ELSE s2
        s4 == IF /\ code = ResponseCode.SubFunctionNotSupportedInActiveSession
                 /\ use_subfunction(cls)
              THEN TRUE ELSE s3
    IN  s4

\* response.data[0] on an empty byte sequence
IndexError == [err |-> "IndexError", rec |-> NoRecord, names |-> <<>>, trace |-> <<>>]

\* _interpret_response(response, standard_version) for response.data = data:
\* the outcome, with the arguments unpack was called with, if it was
_interpret_response(cls, data, standard_version) ==
    IF data.none
    THEN [out |-> Return(New(get_response_cls(cls, standard_version), NO_SUBFUNCTION, NoKwargs),
                         <<>>, <<>>),
          unpacked |-> FALSE, subfunction |-> NO_SUBFUNCTION, data |-> data]
    ELSE IF use_subfunction(cls)
    THEN IF data.b = <<>>
         THEN [out |-> IndexError, unpacked |-> FALSE,
               subfunction |-> NO_SUBFUNCTION, data |-> data]
         ELSE [out |-> unpack(get_response_cls(cls, standard_version),
                              Bytes(PySlice(data.b, 1, Len(data.b))), data.b[1]),
               unpacked |-> TRUE, subfunction |-> data.b[1],
               data |-> Bytes(PySlice(data.b, 1, Len(data.b)))]
    ELSE [out |-> unpack(get_response_cls(cls, standard_version), data,
                         default_subfonction_id(cls)),
          unpacked |-> TRUE, subfunction |-> default_subfonction_id(cls), data |-> data]

\* cls.__subclasses__(): the classes created with base cls, in the order of
\* their creation; classes lists every service class created so far
RECURSIVE __subclasses__(_, _)
__subclasses__(cls, classes) ==
    IF classes = <<>> THEN <<>>
    ELSE (IF ServiceClass(Head(classes)).base = cls THEN <<Head(classes)>> ELSE <<>>)
         \o __subclasses__(cls, Tail(classes))

\* BaseService.__get_all_subclasses(cls): the direct subclasses, then for
\* each of them the list obtained for it
RECURSIVE __get_all_subclasses(_, _)
RECURSIVE ExtendEach(_, _)
ExtendEach(subclasses, classes) ==
    IF subclasses = <<>> THEN <<>>
    ELSE __get_all_subclasses(Head(subclasses), classes)
         \o ExtendEach(Tail(subclasses), classes)

__get_all_subclasses(cls, classes) ==
    __subclasses__(cls, classes) \o ExtendEach(__subclasses__(cls, classes), classes)

\* for obj in classes: if obj.<id>() == given_id: return obj; return None,
\* with ids the identifiers of the classes
FirstWith(lst, ids, given_id) ==
    IF \E j \in 1..Len(lst) : ids[j] = given_id
    THEN lst[CHOOSE j \in 1..Len(lst) :
                 ids[j] = given_id /\ \A k \in 1..(j - 1) : ids[k] # given_id]
    ELSE "None"

RequestIds(lst) == [j \in 1..Len(lst) |-> request_id(lst[j])]
ResponseIds(lst) == [j \in 1..Len(lst) |-> response_id(lst[j])]

from_request_id(cls, given_id, classes) ==
    FirstWith(__get_all_subclasses(cls, classes),
              RequestIds(__get_all_subclasses(cls, classes)), given_id)

from_response_id(cls, given_id, classes) ==
    FirstWith(__get_all_subclasses(cls, classes),
              ResponseIds(__get_all_subclasses(cls, classes)), given_id)

\* ------------------------------------------------------------------------
\* The state machine: a caller builds an instance of a record type and
\* packs it, a peer unpacks the bytes; or bytes arrive from the transport
\* and are unpacked; or two instances are compared.
\* ------------------------------------------------------------------------
VARIABLES
    cls,     \* the record type the caller works with
    rec,     \* the caller's instance
    pc,      \* "idle", "built", "packed", "received", "unpacked", "compared"
    packed,  \* outcome of rec.pack(): [err, bytes]
    data,    \* the data argument the next unpack is given
    origin,  \* where data came from: "none", "pack" or "wire"
    ucls,    \* the record type unpack was called on
    usf,     \* the subfunction unpack was called with
    out,     \* outcome of unpack: [err, rec, names, trace]
    other,   \* the instance rec was compared with
    eq,      \* the result of rec == other
    classes, \* the service classes created so far, in the order of creation
    call,    \* the last call made on a service class, with what it returned
    cache,   \* the values functools.cache holds for the derived classmethods
    threads  \* for each thread, its call of a cached classmethod

vars == <<cls, rec, pc, packed, data, origin, ucls, usf, out, other, eq,
         classes, call, cache, threads>>

\* largest subfunction identifier the callers use
MaxSubfunction == 2
\* longest byte sequence the transport delivers
MaxWireLen == 6
\* number of threads that call the cached classmethods
MaxThreads == 2

Subfunctions == 0..MaxSubfunction
WireBytes == {0, 1}
Wire == UNION {[1..n -> WireBytes] : n \in 0..MaxWireLen}
Payloads == {None} \cup {Bytes(bs) : bs \in Wire}

\* values a caller assigns to a 'f' field: 3.14, 1 / 8 and 0.3
FloatValues == {Eval(l) : l \in {Decimal(314, 100), Decimal(1, 8), Decimal(3, 10)}}
\* values a caller assigns to the 'H' fields with a resolution: 100.0, 0.5
TimingValues == {Eval(l) : l \in {Decimal(100, 1), Decimal(1, 2)}}

\* the values a caller assigns to the attribute of field f
ValuesOf(f) ==
    CASE f.fmt = <<"d">>      -> {PyInt(42), PyInt(-17)}
      [] f.fmt = <<"f">>      -> FloatValues
      [] f.fmt = <<"h">>      -> {PyInt(3), PyInt(-17)}
      [] f.fmt = <<"H">>      -> TimingValues
      [] f.fmt = <<"B">>      -> {PyInt(0), PyInt(5)}
      [] f.fmt = <<"2", "s">> -> {PyBytes(<<>>), PyBytes(<<1, 2>>)}
      [] OTHER                -> {PyBytes(<<>>), PyBytes(<<1>>), PyBytes(<<2, 1>>)}

\* the instances of type c whose attributes take the allowed values
InstancesOf(c, allowed) ==
    {[cls |-> c, subfunction |-> sf, vals |-> v] :
        sf \in Subfunctions,
        v \in {w \in [DOMAIN allowed -> UNION {allowed[n] : n \in DOMAIN allowed}] :
                  \A n \in DOMAIN allowed : w[n] \in allowed[n]}}

\* every instance of a record type the callers can build
Instances(c) == InstancesOf(c, [n \in UdsNames(c) |-> ValuesOf(FieldNamed(c, n))])

\* two record types declared with the same layout for every subfunction
SameLayout(c, d) ==
    \A sf \in Subfunctions : get_payload_fmt(c, sf) = get_payload_fmt(d, sf)

Threads == 1..MaxThreads

\* import udsoncan.services: the service classes in the order of the imports
Imported ==
    <<"DiagnosticSessionControl", "ResponseOnEvent", "ReadScalingDataByIdentifier",
      "ReadDataByPeriodicIdentifier">>

NoCall == [op |-> "none", cls |-> "None", arg |-> 0, ret |-> 0]
Idle ==
    [pc |-> "idle", fn |-> "none", subfunction |-> NO_SUBFUNCTION, hit |-> FALSE,
     value |-> <<>>]

Unset == [err |-> "unset", bytes |-> <<>>]
NoOutcome == [err |-> "unset", rec |-> NoRecord, names |-> <<>>, trace |-> <<>>]

Init ==
    /\ cls \in RecordTypes
    /\ rec = New(cls, NO_SUBFUNCTION, NoKwargs)
    /\ pc = "idle"
    /\ packed = Unset
    /\ data = None
    /\ origin = "none"
    /\ ucls = cls
    /\ usf = NO_SUBFUNCTION
    /\ out = NoOutcome
    /\ other = NoRecord
    /\ eq = FALSE
    /\ classes = Imported
    /\ call = NoCall
    /\ cache = [k \in {} |-> <<>>]
    /\ threads = [t \in Threads |-> Idle]

\* rec.<n> = v
SetAttr(n, v) ==
    /\ pc \in {"idle", "built"}
    /\ rec' = [rec EXCEPT !.vals[n] = v]
    /\ pc' = "built"
    /\ UNCHANGED <<cls, packed, data, origin, ucls, usf, out, other, eq,
                   classes, call, cache, threads>>

\* rec.subfunction = sf
SetSubfunction(sf) ==
    /\ pc \in {"idle", "built"}
    /\ rec' = [rec EXCEPT !.subfunction = sf]
    /\ pc' = "built"
    /\ UNCHANGED <<cls, packed, data, origin, ucls, usf, out, other, eq,
                   classes, call, cache, threads>>

\* rec.pack(); the bytes, when there are any, go to the peer
Pack ==
    /\ pc \in {"idle", "built"}
    /\ packed' = pack(rec)
    /\ data' = IF packed'.err = "none" THEN Bytes(packed'.bytes) ELSE data
    /\ origin' = IF packed'.err = "none" THEN "pack" ELSE origin
    /\ pc' = "packed"
    /\ UNCHANGED <<cls, rec, ucls, usf, out, other, eq,
                   classes, call, cache, threads>>

\* a response payload, or none at all, arrives from the transport
Receive(d) ==
    /\ pc = "idle"
    /\ data' = d
    /\ origin' = "wire"
    /\ pc' = "received"
    /\ UNCHANGED <<cls, rec, packed, ucls, usf, out, other, eq,
                   classes, call, cache, threads>>

\* c.unpack(data, sf): on the caller's type, or on a type of the same
\* layout when the bytes were packed by the caller
Unpack(c, sf) ==
    /\ \/ pc = "packed" /\ packed.err = "none" /\ SameLayout(c, cls)
       \/ pc = "received" /\ c = cls
    /\ out' = unpack(c, data, sf)
    /\ ucls' = c
    /\ usf' = sf
    /\ pc' = "unpacked"
    /\ UNCHANGED <<cls, rec, packed, data, origin, other, eq,
                   classes, call, cache, threads>>

\* rec == b for another instance b of the same type
Compare(b) ==
    /\ pc \in {"idle", "built"}
    /\ other' = b
    /\ eq' = Equals(rec, b)
    /\ pc' = "compared"
    /\ UNCHANGED <<cls, rec, packed, data, origin, ucls, usf, out,
                   classes, call, cache, threads>>

Next ==
    \/ \E n \in DOMAIN rec.vals : \E v \in ValuesOf(FieldNamed(cls, n)) : SetAttr(n, v)
    \/ \E sf \in Subfunctions : SetSubfunction(sf)
    \/ Pack
    \/ \E d \in Payloads : Receive(d)
    \/ \E c \in RecordTypes : \E sf \in Subfunctions : Unpack(c, sf)
    \/ \E b \in Instances(cls) : Compare(b)

Spec == Init /\ [][Next]_vars

\* ------------------------------------------------------------------------
\* Comparing instances of two record types
\* ------------------------------------------------------------------------
\* a caller sets the subfunction of a new instance and compares it with an
\* instance of another record type built without keyword arguments
EqNext ==
    \/ \E sf \in Subfunctions : SetSubfunction(sf)
    \/ \E c \in RecordTypes \ {cls} : \E sf \in Subfunctions :
          Compare(New(c, sf, NoKwargs))

EqSpec == Init /\ [][EqNext]_vars

\* ------------------------------------------------------------------------
\* Calls on the service classes: a caller's modules declare their services,
\* then one call is made on a service class
\* ------------------------------------------------------------------------
\* the services declared outside of udsoncan.services
UserServices == {"ExtendedSessionControl", "ConditionalService", "PlainService"}

\* the response codes and the service identifiers the callers pass
Codes == 0..255
Ids == 0..256

Created(s) == \E j \in 1..Len(classes) : classes[j] = s

\* the class statement of service s is executed
Declare(s) ==
    /\ pc = "idle"
    /\ ~Created(s)
    /\ ServiceClass(s).base = "BaseService" \/ Created(ServiceClass(s).base)
    /\ classes' = Append(classes, s)
    /\ UNCHANGED <<cls, rec, pc, packed, data, origin, ucls, usf, out, other, eq,
                   call, cache, threads>>

\* s.is_supported_negative_response(code)
IsSupportedNegativeResponse(s, code) ==
    /\ pc = "idle"
    /\ Created(s)
    /\ call' = [op |-> "is_supported_negative_response", cls |-> s, arg |-> code,
                ret |-> is_supported_negative_response(s, code)]
    /\ pc' = "called"
    /\ UNCHANGED <<cls, rec, packed, data, origin, ucls, usf, out, other, eq,
                   classes, cache, threads>>

\* s.response_id(), for the service with request identifier s.request_id()
ResponseId(s) ==
    /\ pc = "idle"
    /\ Created(s)
    /\ call' = [op |-> "response_id", cls |-> s, arg |-> request_id(s),
                ret |-> response_id(s)]
    /\ pc' = "called"
    /\ UNCHANGED <<cls, rec, packed, data, origin, ucls, usf, out, other, eq,
                   classes, cache, threads>>

\* s._interpret_response(response, v) for a response whose data is d; data,
\* ucls and usf become what unpack was called with
InterpretResponse(s, v, d) ==
    /\ pc = "idle"
    /\ Created(s)
    /\ call' = [op |-> "interpret_response", cls |-> s,
                arg |-> [standard_version |-> v, data |-> d],
                ret |-> _interpret_response(s, d, v)]
    /\ out' = call'.ret.out
    /\ ucls' = get_response_cls(s, v)
    /\ usf' = call'.ret.subfunction
    /\ data' = call'.ret.data
    /\ origin' = "wire"
    /\ pc' = "called"
    /\ UNCHANGED <<cls, rec, packed, other, eq, classes, cache, threads>>

\* BaseService.from_request_id(id)
FromRequestId(id) ==
    /\ pc = "idle"
    /\ call' = [op |-> "from_request_id", cls |-> "BaseService", arg |-> id,
                ret |-> from_request_id("BaseService", id, classes)]
    /\ pc' = "called"
    /\ UNCHANGED <<cls, rec, packed, data, origin, ucls, usf, out, other, eq,
                   classes, cache, threads>>

\* BaseService.from_response_id(id)
FromResponseId(id) ==
    /\ pc = "idle"
    /\ call' = [op |-> "from_response_id", cls |-> "BaseService", arg |-> id,
                ret |-> from_response_id("BaseService", id, classes)]
    /\ pc' = "called"
    /\ UNCHANGED <<cls, rec, packed, data, origin, ucls, usf, out, other, eq,
                   classes, cache, threads>>

ServiceInit == Init /\ cls = "EmptyServiceData"

ServiceNext ==
    \/ \E s \in UserServices : Declare(s)
    \/ \E j \in 1..Len(classes) : \E code \in Codes :
           IsSupportedNegativeResponse(classes[j], code)
    \/ \E j \in 1..Len(classes) : ResponseId(classes[j])
    \/ \E id \in Ids : FromRequestId(id)
    \/ \E id \in Ids : FromResponseId(id)

ServiceSpec == ServiceInit /\ [][ServiceNext]_vars

\* a caller declares a service without subfunction byte or not; then the
\* response to a request of one of the services is interpreted
ResponseNext ==
    \/ Declare("PlainService")
    \/ \E j \in 1..Len(classes) : \E v \in StandardVersion : \E d \in Payloads :
           InterpretResponse(classes[j], v, d)

ResponseSpec == ServiceInit /\ [][ResponseNext]_vars

\* ------------------------------------------------------------------------
\* The classmethods under functools.cache, called by several threads
\* ------------------------------------------------------------------------
Cached ==
    {"get_payload_fmt", "_iter_payload_fmt", "get_parameter_names",
     "get_parameter_resolutions", "get_parameter_scaling_factors"}

\* the function that @cache wraps
Wrapped(fn, c, subfunction) ==
    CASE fn = "get_payload_fmt"           -> get_payload_fmt(c, subfunction)
      [] fn = "_iter_payload_fmt"         -> _iter_payload_fmt(c, subfunction)
      [] fn = "get_parameter_names"       -> get_parameter_names(c, subfunction)
      [] fn = "get_parameter_resolutions" -> get_parameter_resolutions(c, subfunction)
      [] OTHER                            -> get_parameter_scaling_factors(c, subfunction)

\* a key that leaves out the subfunction
CacheKey_of_type(fn, c, subfunction) == <<fn, c>>

\* every function has a cache of its own, keyed by the arguments of the call
CacheKey(fn, c, subfunction) == <<fn, c, subfunction>>

\* cache[key] = value
Store(key, value) ==
    [k \in DOMAIN cache \cup {key} |-> IF k = key THEN value ELSE cache[k]]

\* thread t calls cls.fn(sf): the wrapper looks the key up; a hit returns
\* the stored value, a miss starts the wrapped function
CallCached(t, fn, sf) ==
    /\ threads[t].pc = "idle"
    /\ threads' = [threads EXCEPT ![t] =
           IF CacheKey(fn, cls, sf) \in DOMAIN cache
           THEN [pc |-> "returned", fn |-> fn, subfunction |-> sf, hit |-> TRUE,
                 value |-> cache[CacheKey(fn, cls, sf)]]
           ELSE [pc |-> "computing", fn |-> fn, subfunction |-> sf, hit |-> FALSE,
                 value |-> <<>>]]
    /\ UNCHANGED <<cls, rec, pc, packed, data, origin, ucls, usf, out, other, eq,
                   classes, call, cache>>

\* the wrapped function returns its result to the wrapper
Compute(t) ==
    /\ threads[t].pc = "computing"
    /\ threads' = [threads EXCEPT ![t].pc = "computed",
                                  ![t].value = Wrapped(threads[t].fn, cls,
                                                       threads[t].subfunction)]
    /\ UNCHANGED <<cls, rec, pc, packed, data, origin, ucls, usf, out, other, eq,
                   classes, call, cache>>

\* the wrapper stores the result under the key and returns it
StoreAndReturn(t) ==
    /\ threads[t].pc = "computed"
    /\ cache' = Store(CacheKey(threads[t].fn, cls, threads[t].subfunction),
                      threads[t].value)
    /\ threads' = [threads EXCEPT ![t].pc = "returned"]
    /\ UNCHANGED <<cls, rec, pc, packed, data, origin, ucls, usf, out, other, eq,
                   classes, call>>

CacheNext ==
    \/ \E t \in Threads : \E fn \in Cached : \E sf \in Subfunctions : CallCached(t, fn, sf)
    \/ \E t \in Threads : Compute(t)
    \/ \E t \in Threads : StoreAndReturn(t)

CacheSpec == Init /\ [][CacheNext]_vars

\* ========================================================================
\* Properties
\* ========================================================================
\* What the record layer is documented to do, stated on the declarations
\* alone: none of the operators below goes through the derived operators of
\* ServiceData.

IsVariadic(f) == \E i \in DOMAIN f.fmt : f.fmt[i] = "{}"

\* the declared UDS fields of c whose set of subfunctions is empty or
\* holds sf, in declaration order
Applicable(c, sf) ==
    SelectSeq(fields(c),
              LAMBDA f : f.uds /\ (f.subfunctions = {} \/ sf \in f.subfunctions))

VariadicCount(fs) == Cardinality({i \in DOMAIN fs : IsVariadic(fs[i])})

\* every field of c applies to every subfunction
Unconditional(c) == \A i \in DOMAIN fields(c) : fields(c)[i].subfunctions = {}

\* the value of data is a byte sequence that is not empty
NonEmpty(d) == ~d.none /\ Len(d.b) > 0

\* the bytes of one field holding v: the scaled value under the field's
\* format, a variable-length one behind the 2-byte length of its bytes
FieldEncoding(f, v) ==
    IF IsVariadic(f)
    THEN IF v.k = "bytes"
         THEN StructPack(_ENDIANNESS \o format(f.fmt, <<Len(v.b)>>).fmt,
                         <<PyInt(Len(v.b)), v>>)
         ELSE PackErr("struct.error")
    ELSE StructPack(_ENDIANNESS \o f.fmt, <<PyMul(v, scale_factor(f))>>)

Concat(a, b) ==
    IF a.err # "none" THEN a
    ELSE IF b.err # "none" THEN b
    ELSE PackOk(a.bytes \o b.bytes)

\* the encodings of the fields fs[i..] holding vals, one after the other
RECURSIVE Encoding(_, _, _)
Encoding(fs, vals, i) ==
    IF i > Len(fs) THEN PackOk(<<>>)
    ELSE Concat(FieldEncoding(fs[i], vals[fs[i].name]), Encoding(fs, vals, i + 1))

\* every field applicable to x's subfunction holds an integer or bytes, of
\* the length a fixed-length format asks for, and has resolution 1: no
\* value of x is changed by scaling or by its format
Plain(x) ==
    \A i \in DOMAIN Applicable(x.cls, x.subfunction) :
        /\ x.vals[Applicable(x.cls, x.subfunction)[i].name].k \in {"int", "bytes"}
        /\ PyEq(resolution(Applicable(x.cls, x.subfunction)[i]), PyInt(1))
        /\ Applicable(x.cls, x.subfunction)[i].fmt = <<"2", "s">>
           => Len(x.vals[Applicable(x.cls, x.subfunction)[i].name].b) = 2

\* a and b hold equal values in every field of fs
SameValues(a, b, fs) ==
    \A i \in DOMAIN fs : PyEq(a.vals[fs[i].name], b.vals[fs[i].name])

\* C1: round trip. Packing a record x whose values are valid for their
\* formats succeeds, and unpacking the bytes with x's type and subfunction
\* succeeds and returns a record with the same value as x in every field
\* applicable to the subfunction (stated for the records unaffected by
\* rounding: integers and bytes at resolution 1).
C1_RoundTrip ==
    /\ (pc = "packed" /\ Plain(rec) => packed.err = "none")
    /\ (pc = "unpacked" /\ origin = "pack" /\ ucls = cls
            /\ usf = rec.subfunction /\ Plain(rec)
        => out.err = "none" /\ SameValues(out.rec, rec, Applicable(cls, usf)))

\* position of name n among the declared fields of c
DeclaredAt(c, n) == CHOOSE i \in DOMAIN fields(c) : fields(c)[i].name = n

\* names lists exactly the applicable UDS fields of c for sf: every such
\* field is listed, nothing else is, none twice, and in declaration order
ListsApplicable(names, c, sf) ==
    /\ \A i \in DOMAIN fields(c) :
          (\E j \in DOMAIN names : names[j] = fields(c)[i].name)
          <=> /\ fields(c)[i].uds
              /\ (fields(c)[i].subfunctions = {} \/ sf \in fields(c)[i].subfunctions)
    /\ \A j \in DOMAIN names : \E i \in DOMAIN fields(c) : names[j] = fields(c)[i].name
    /\ \A j, k \in DOMAIN names :
          j < k => DeclaredAt(c, names[j]) < DeclaredAt(c, names[k])

\* C2: filtering. get_parameter_names(sf), as unpack obtains it, is exactly
\* the sequence of the names of the declared UDS fields whose set of
\* subfunctions is empty or contains sf, in declaration order.
C2_Filtering ==
    pc = "unpacked" => ListsApplicable(out.names, ucls, usf)

\* C2 witness: a type with a field bound to subfunction 1 is unpacked for
\* subfunction 0 and the bound field is left out
C2_Witness ==
    /\ pc = "unpacked"
    /\ ucls = "AdvancedServiceData"
    /\ usf = 0
    /\ out.names = <<"an_int">>

\* C3: pack() encodes exactly the fields applicable to the record's own
\* subfunction sf under the layout of sf, also when sf # 0 and when a
\* variable-length field is applicable to sf; with no applicable field the
\* result is empty (stated for at most one variable-length field).
C3_PackLayout ==
    pc = "packed"
        /\ VariadicCount(Applicable(cls, rec.subfunction)) <= 1
        /\ Encoding(Applicable(cls, rec.subfunction), rec.vals, 1).err = "none"
    => packed = Encoding(Applicable(cls, rec.subfunction), rec.vals, 1)

\* C4: length prefix. With k >= 1 applicable variable-length fields, pack()
\* writes each one's 2-byte big-endian byte count immediately before its
\* bytes and leaves every other value in its own declaration-order slot
\* (stated for the types whose fields apply to every subfunction).
C4_LengthPrefix ==
    pc = "packed"
        /\ Unconditional(cls)
        /\ VariadicCount(Applicable(cls, rec.subfunction)) >= 1
        /\ Encoding(Applicable(cls, rec.subfunction), rec.vals, 1).err = "none"
    => /\ packed.err = "none"
       /\ packed.bytes = Encoding(Applicable(cls, rec.subfunction), rec.vals, 1).bytes

\* C5: every successful unpack(data, sf) returns a record of the concrete
\* type whose subfunction is sf, also when no field is applicable to sf and
\* data is empty or absent.
C5_UnpackSubfunction ==
    pc = "unpacked" /\ out.err = "none"
    => out.rec.cls = ucls /\ out.rec.subfunction = usf

\* C6: unpack fails with the missing-data error (ValueError), returning no
\* record, exactly when (1) no field is applicable to sf and data is
\* non-empty, or (2) some field is applicable to sf and data is empty or
\* absent; with no applicable field and empty or absent data it does not
\* fail.
C6_MissingData ==
    pc = "unpacked" =>
        /\ (out.err = "ValueError")
           <=> \/ Applicable(ucls, usf) = <<>> /\ NonEmpty(data)
               \/ Applicable(ucls, usf) # <<>> /\ ~NonEmpty(data)
        /\ (out.err = "ValueError" => out.rec = NoRecord)
        /\ (Applicable(ucls, usf) = <<>> /\ ~NonEmpty(data) => out.err = "none")

\* C6 witness: situation (2), a type with applicable fields receives no
\* data and unpack raises
C6_Witness ==
    /\ pc = "unpacked"
    /\ data = None
    /\ Applicable(ucls, usf) # <<>>
    /\ out.err = "ValueError"

\* the size the fields fs[i..] require of the buffer bs from offset off on:
\* the fixed widths plus, for a variable-length field, 2 bytes and the
\* length the buffer carries there; -1 when bs ends before such a length
RECURSIVE RequiredSize(_, _, _, _)
RequiredSize(fs, bs, i, off) ==
    IF i > Len(fs) THEN off
    ELSE IF ~IsVariadic(fs[i])
    THEN RequiredSize(fs, bs, i + 1, off + CalcSize(_ENDIANNESS \o fs[i].fmt))
    ELSE IF off + 2 > Len(bs) THEN -1
    ELSE RequiredSize(fs, bs, i + 1, off + 2 + bs[off + 1] * Base + bs[off + 2])

\* C7: unpack on a non-empty buffer whose length differs from the size the
\* layout for sf requires fails with a TranscodeError (struct.error) and
\* returns no record, for buffers too short and too long.
C7_WrongLength ==
    pc = "unpacked" /\ NonEmpty(data) /\ Applicable(ucls, usf) # <<>>
        /\ RequiredSize(Applicable(ucls, usf), data.b, 1, 0) # Len(data.b)
    => out.err = "struct.error" /\ out.rec = NoRecord

\* C8: in the multi-chunk path the offsets never decrease and, when unpack
\* returns a record, end_index never exceeds len(data); an offset beyond
\* the buffer ends in a TranscodeError.
C8_Offsets ==
    pc = "unpacked" =>
        /\ \A i \in DOMAIN out.trace :
              /\ out.trace[i].start_index <= out.trace[i].end_index
              /\ i > 1 => out.trace[i - 1].end_index <= out.trace[i].start_index
        /\ (\E i \in DOMAIN out.trace : out.trace[i].end_index > Len(data.b))
           => out.err = "struct.error"

\* the multiplier documented for resolution r: 1 when r = 1, else 1 / r
Multiplier(r) ==
    IF PyEq(r, PyInt(1)) THEN PyInt(1) ELSE FDiv(FromInt(1), ToFloat(r))

\* what a field of f's format carries for the raw value: "f" keeps 24 bits
OnWire(f, raw) == IF f.fmt = <<"f">> THEN ToSingle(ToFloat(raw)) ELSE raw

\* the field carries the raw value of the number v without rounding it
CarriedExactly(f, raw) == PyEq(OnWire(f, raw), raw)
ExactOnWire(f, v) ==
    v.k # "bytes" /\ CarriedExactly(f, PyMul(v, Multiplier(resolution(f))))

PowerOfTwo(r) == (r.k = "int" /\ r.i = 1) \/ (r.k = "float" /\ r.m = <<1>>)

\* |x - y| <= |y| / 2^(SingleBits - 2) for two floats of one sign, compared
\* on their significands shifted to the common exponent e
Magnitude(x, e) == NShl(x.m, x.e - e)
Gap(p, q) == IF NGeq(p, q) THEN NSub(p, q) ELSE NSub(q, p)
CloseAt(x, y, e) ==
    /\ x.s = y.s
    /\ NGeq(Magnitude(y, e),
            NShl(Gap(Magnitude(x, e), Magnitude(y, e)), SingleBits - 2))

\* a equals b up to the rounding of a 32-bit float
Close(a, b) ==
    IF a.k = "bytes" \/ b.k = "bytes" THEN PyEq(a, b)
    ELSE \/ ToFloat(a).m = <<>> /\ ToFloat(b).m = <<>>
         \/ CloseAt(ToFloat(a), ToFloat(b), Min(ToFloat(a).e, ToFloat(b).e))

\* w is what unpacking with a field of resolution rg returns for the value
\* v packed with field f of resolution rf: the raw value v * multiplier as
\* carried, times rg; with one resolution on both sides that is v up to
\* rounding, and v itself when the resolution is a power of two and the raw
\* value is carried exactly
ReturnedAs(f, rf, rg, raw, v, w) ==
    /\ PyEq(w, PyMul(OnWire(f, raw), rg))
    /\ (rf = rg => Close(w, v))
    /\ (rf = rg /\ PowerOfTwo(rf) /\ PyEq(OnWire(f, raw), raw) => PyEq(w, v))

ReturnedFor(f, rf, rg, v, w) ==
    ReturnedAs(f, rf, rg, PyMul(v, Multiplier(rf)), v, w)

Returned(f, g, v, w) == ReturnedFor(f, resolution(f), resolution(g), v, w)

\* a pack followed by a successful unpack for the record's own subfunction
PackedThenUnpacked ==
    pc = "unpacked" /\ origin = "pack" /\ usf = rec.subfunction /\ out.err = "none"

Items(x, s) ==
    [j \in DOMAIN Applicable(x.cls, s) |->
        <<Applicable(x.cls, s)[j].name,
          PyMul(x.vals[Applicable(x.cls, s)[j].name],
                scale_factor(Applicable(x.cls, s)[j]))>>]

SameItems(p, q) ==
    /\ Len(p) = Len(q)
    /\ \A j \in DOMAIN p : p[j][1] = q[j][1] /\ PyEq(p[j][2], q[j][2])

\* C10: two records of one type with the same subfunction s compare equal
\* if and only if their (name, scaled value) items for the fields
\* applicable to s are equal element-wise and of equal length; values of
\* fields not applicable to s have no influence.
C10_Equality ==
    pc = "compared" /\ rec.subfunction = other.subfunction
    => (eq <=> SameItems(Items(rec, rec.subfunction), Items(other, rec.subfunction)))

\* C11: records of two different record types never compare equal, also
\* when one type has no parameters or when the fields of one are a prefix
\* of the fields of the other.
C11_UnrelatedTypes ==
    pc = "compared" /\ other.cls # rec.cls => eq = FALSE

\* the codes of a list attribute of service s
Listed(s, attr) == {getattr(s, attr)[j] : j \in 1..Len(getattr(s, attr))}

\* the four rules that make a code a supported negative response of s
Rules(s, code, own) ==
    \/ code \in own
    \/ code \in Listed(s, "always_valid_negative_response")
    \/ 128 <= code /\ code < 255 /\ ResponseCode.ConditionsNotCorrect \in own
    \/ code = ResponseCode.SubFunctionNotSupportedInActiveSession /\ use_subfunction(s)

\* C12: is_supported_negative_response(code) is true if and only if the
\* code is in the service's own list, or in the always-valid list, or lies
\* in 0x80..0xFE while the service lists ConditionsNotCorrect, or is
\* SubFunctionNotSupportedInActiveSession while the service uses a
\* subfunction byte; for every other code, 0xFF included, it is false.
C12_NegativeResponse ==
    pc = "called" /\ call.op = "is_supported_negative_response" =>
        call.ret = Rules(call.cls, call.arg, Listed(call.cls, "supported_negative_response"))

\* a code from 0x80 that only the third rule makes supported

C12_Witness ==
    /\ pc = "called"
    /\ call.op = "is_supported_negative_response"
    /\ call.cls = "ReadScalingDataByIdentifier"
    /\ call.arg = 254
    /\ call.ret = TRUE

\* the service of the validation table: it lists ConditionsNotCorrect only
\* and uses a subfunction byte
TableService(s) ==
    /\ Listed(s, "supported_negative_response") = {ResponseCode.ConditionsNotCorrect}
    /\ ~hasattr(s, "_use_subfunction")

TableCall == pc = "called" /\ call.op = "is_supported_negative_response" /\ TableService(call.cls)

NoSubfunctionByte(s) == hasattr(s, "_use_subfunction") /\ ~getattr(s, "_use_subfunction")

Interpreted == pc = "called" /\ call.op = "interpret_response"

\* what unpack has to be called with for a payload of service s
HandedOver(s, payload) ==
    IF NoSubfunctionByte(s) THEN usf = 0 /\ data = Bytes(payload)
    ELSE usf = Head(payload) /\ data = Bytes(Tail(payload))

C15_NoPayload ==
    Interpreted /\ (call.arg.data.none \/ call.arg.data.b = <<>>) =>
        /\ out.err = "none"
        /\ out.rec = New(getattr(call.cls, "get_response_cls")[call.arg.standard_version],
                         NO_SUBFUNCTION, NoKwargs)

\* C16: for a service whose request identifier is a one-byte value,
\* response_id() is request_id() + 0x40 and is a one-byte value too.
C16_ResponseId ==
    pc = "called" /\ call.op = "response_id" /\ call.arg \in 0..255 =>
        call.ret = call.arg + 64 /\ call.ret \in 0..255

\* the created services whose identifier, as obtained by id, is the one
\* looked up
Matching(id(_)) == {j \in 1..Len(classes) : id(classes[j]) = call.arg}

\* the lookup returns each service with the identifier looked up, and None
\* when there is none
Found(matching) ==
    /\ \A j \in matching : call.ret = classes[j]
    /\ matching = {} => call.ret = "None"

\* C17: the identifiers of the created services are unique, so that a
\* lookup by request or response identifier returns the service S for the
\* identifier of every created service S, and None for an identifier of no
\* service.
C17_Lookup ==
    /\ pc = "called" /\ call.op = "from_request_id" => Found(Matching(request_id))
    /\ pc = "called" /\ call.op = "from_response_id" => Found(Matching(response_id))

\* the variable-length fields among the declared fields of c
VariadicFields(c) == SelectSeq(fields(c), LAMBDA f : f.uds /\ IsVariadic(f))

\* the bytes taken by the fields of fixed size among fs, from the i-th on
RECURSIVE FixedSize(_, _)
FixedSize(fs, i) ==
    IF i > Len(fs) THEN 0
    ELSE (IF IsVariadic(fs[i]) THEN 0 ELSE CalcSize(_ENDIANNESS \o fs[i].fmt))
         + FixedSize(fs, i + 1)

\* x with its variable-length field f empty
Emptied(x, f) == [x EXCEPT !.vals[f.name] = PyBytes(<<>>)]

\* the lengths of pack(x) and of pack(x with f empty) differ by d more than
\* the number of bytes f holds
LongerBy(x, f, d) ==
    Len(packed.bytes) = Len(pack(Emptied(x, f)).bytes) + Len(x.vals[f.name].b) + d

RECURSIVE Unmarked(_)
Unmarked(chunks) ==
    IF chunks = <<>> THEN <<>> ELSE Tail(Head(chunks)) \o Unmarked(Tail(chunks))

\* the chunks are one more than the variable-length fields among fs, each is
\* led by the byte order, all but the first have the placeholder next, and
\* together they are the layout
ChunksOf(chunks, fs, layout) ==
    /\ Len(chunks) = VariadicCount(fs) + 1
    /\ \A i \in 1..Len(chunks) : Len(chunks[i]) >= 1 /\ <<chunks[i][1]>> = _ENDIANNESS
    /\ \A i \in 2..Len(chunks) : Len(chunks[i]) >= 2 /\ chunks[i][2] = "{}"
    /\ Unmarked(chunks) = Tail(layout)

\* C18: _iter_payload_fmt(sf) has one chunk more than there are
\* variable-length fields applicable to sf (one chunk when there is none),
\* every chunk starts with the big-endian marker, every chunk after the
\* first has the length placeholder right after it, and the chunks without
\* their markers, concatenated, are get_payload_fmt(sf) without its marker.
C18_Chunks ==
    \A t \in Threads :
        threads[t].pc = "returned" /\ threads[t].fn = "_iter_payload_fmt" =>
            ChunksOf(threads[t].value, Applicable(cls, threads[t].subfunction),
                     get_payload_fmt(cls, threads[t].subfunction))

\* the three chunks of a type with two variable-length fields
C18_Witness ==
    \E t \in Threads :
        /\ threads[t].pc = "returned"
        /\ threads[t].fn = "_iter_payload_fmt"
        /\ cls = "TwoVariadicServiceData"
        /\ Len(threads[t].value) = 3

\* the threads that were returned a value for the same function and
\* subfunction were returned the same value
Agree ==
    \A t, u \in Threads :
        /\ threads[t].pc = "returned" /\ threads[u].pc = "returned"
        /\ threads[t].fn = threads[u].fn
        /\ threads[t].subfunction = threads[u].subfunction
        => threads[t].value = threads[u].value

\* a returned value has one entry per field applicable to the subfunction
\* asked for (one token per token of these fields for a layout)
Whole(fn, value, fs) ==
    CASE fn = "get_payload_fmt"   -> Len(value) = 1 + Len(join(FmtSeq(fs)))
      [] fn = "_iter_payload_fmt" -> Len(value) = VariadicCount(fs) + 1
      [] OTHER                    -> Len(value) = Len(fs)

AllWhole ==
    \A t \in Threads :
        threads[t].pc = "returned" =>
            Whole(threads[t].fn, threads[t].value, Applicable(cls, threads[t].subfunction))

\* a value stored under a key stays stored and does not change
Stable == \A k \in DOMAIN cache : k \in DOMAIN cache' /\ cache'[k] = cache[k]

FixedValue(f, bs, off) ==
    PyMul(StructUnpack(_ENDIANNESS \o f.fmt,
                       SubSeq(bs, off + 1, off + CalcSize(_ENDIANNESS \o f.fmt))).vals[1],
          resolution(f))

\* the values a buffer bs of the size the fields fs require holds for the
\* fields fs[i..], the first one at offset off: a variable-length field
\* holds the n bytes behind its 2-byte length n, the length is no value
RECURSIVE OwnValues(_, _, _, _)
OwnValues(fs, bs, i, off) ==
    IF i > Len(fs) THEN <<>>
    ELSE IF ~IsVariadic(fs[i])
    THEN <<FixedValue(fs[i], bs, off)>>
         \o OwnValues(fs, bs, i + 1, off + CalcSize(_ENDIANNESS \o fs[i].fmt))
    ELSE <<PyBytes(SubSeq(bs, off + 3, off + 2 + bs[off + 1] * Base + bs[off + 2]))>>
         \o OwnValues(fs, bs, i + 1, off + 2 + bs[off + 1] * Base + bs[off + 2])

\* x holds in each field of fs the value of the same position in values
Holds(x, fs, values) ==
    \A j \in DOMAIN fs : PyEq(x.vals[fs[j].name], values[j])

\* unpack returned a record for a subfunction sf with a variable-length
\* field, from a buffer of the size the fields applicable to sf require
ChunkedDecoding ==
    /\ pc = "unpacked"
    /\ out.err = "none"
    /\ NonEmpty(data)
    /\ VariadicCount(Applicable(ucls, usf)) >= 1
    /\ RequiredSize(Applicable(ucls, usf), data.b, 1, 0) = Len(data.b)

\* C21: multi-chunk decoding in unpack(data, sf). The chunks walked are
\* those of the requested subfunction sf, one more than the variable-length
\* fields applicable to sf, and every field applicable to sf receives the
\* value decoded for its own position, no length being stored in a field,
\* for any number of variable-length fields.
C21_ChunkedDecoding ==
    ChunkedDecoding =>
        /\ Len(out.trace) = VariadicCount(Applicable(ucls, usf)) + 1
        /\ Holds(out.rec, Applicable(ucls, usf),
                 OwnValues(Applicable(ucls, usf), data.b, 1, 0))

\* the record types declared in the repository: in base_service.py, in
\* services/diagnostic_session_control.py and in test/test_base_service.py
Declared ==
    {"EmptyServiceData", "SimpleServiceData", "AdvancedServiceData",
     "ScaledServiceData", "SimpleVariadicServiceData", "ResponseDataPost2006",
     "ResponseDataPre2006"}

\* C22: every record type declared in the repository can pack its
\* default-constructed instance: each default times its scale_factor is a
\* value of the kind and the range the field's format requires (100.0 at
\* resolution 0.001 and at resolution 0.01 for the two 'H' fields of
\* ResponseDataPost2006), so pack() raises no TranscodeError on defaults.
C22_DefaultsPack ==
    pc = "packed" /\ cls \in Declared /\ rec = New(cls, NO_SUBFUNCTION, NoKwargs)
    => packed.err = "none"

=============================================================================
